---- MODULE Spec2Model ----
(***************************************************************************)
(* The Tempo trace-pipeline shim of pkg/tempo: the translation of the      *)
(* agent's Config into the collector's configuration graph                 *)
(* (Config.otelConfig, tracingFactories) and the supervisor that builds,   *)
(* starts and stops the pipeline (New, buildAndStartPipeline, Stop).       *)
(*                                                                         *)
(* Text (user names, passwords, file contents, header values) is a         *)
(* sequence of byte values; component names, URLs and paths are strings.   *)
(* A Go pointer or a value that may be nil is a sequence of length 0 or 1. *)
(***************************************************************************)
EXTENDS Integers, Sequences, FiniteSets, TLC

VARIABLES
    cfg,           \* the Config handed to New
    fs,            \* the local file system: path -> content
    pc,            \* the supervisor's position in New / buildAndStartPipeline / Stop
    trace,         \* the calls the supervisor has made, each with its outcome
    err,           \* the error New returned, as its chain of wrapped messages
    tempo,         \* the Tempo struct's exporter, pipelines and receivers fields
    otelCfg,       \* what otelConfig returned: Nil or the loaded configuration
    mapStructure,  \* otelConfig's otelMapStructure when it returned: Nil while empty
    fileReads,     \* calls of ioutil.ReadFile
    factoryCalls,  \* calls of tracingFactories
    logged,        \* messages written with logger.Error
    stops          \* completed calls of Stop

vars == <<cfg, fs, pc, trace, err, tempo, otelCfg, mapStructure,
          fileReads, factoryCalls, logged, stops>>

(***************************************************************************)
(* Bounds of the model.                                                    *)
(***************************************************************************)
\* Longest inline password and longest password-file content, in bytes.
MaxLen == 2
\* Largest number of entries of the receivers mapping.
MaxReceivers == 2
\* Largest number of calls to Stop on one supervisor.
MaxStops == 2

Nil == <<>>
Ptr(x) == <<x>>
Deref(p) == p[1]

Strs(chars, n) == UNION {[1..k -> chars] : k \in 0..n}

(***************************************************************************)
(* The inputs: the configuration document and the local file system.       *)
(***************************************************************************)
\* Keys a receivers mapping may carry; "opencensus" has no compiled-in factory.
ReceiverKeys == {"jaeger", "zipkin", "otlp", "opencensus"}
\* The opaque receiver settings, which the collector accepts or rejects.
ReceiverSettings == {"settings", "malformed settings"}
URLs == {"", "tempo:55680"}
\* "u"
Usernames == {<<117>>}
\* over "p"
Passwords == Strs({112}, MaxLen)
\* over "s" and "\n"
FileContents == Strs({115, 10}, MaxLen)
SecretPath == "/etc/tempo/secret"
PasswordFiles == {"", SecretPath, "/nonexistent"}

BasicAuthConfig == [Username : Usernames, Password : Passwords, PasswordFile : PasswordFiles]

RWConfig ==
    [URL : URLs,
     BasicAuth : {Nil} \cup {Ptr(b) : b \in BasicAuthConfig},
     Batch : {Nil, Ptr("batch settings")},
     Queue : {Nil, Ptr("queue settings")}]

ReceiverMaps ==
    UNION {[ks -> ReceiverSettings] : ks \in {s \in SUBSET ReceiverKeys : Cardinality(s) <= MaxReceivers}}

Config == [Enabled : BOOLEAN, RemoteWrite : RWConfig, Receivers : ReceiverMaps]

\* The file system holds one readable file; every other path is unreadable.
FileSystems == [{SecretPath} -> FileContents]

\* ioutil.ReadFile
ReadFile(files, path) ==
    IF path \in DOMAIN files THEN [ok |-> TRUE, buff |-> files[path]]
    ELSE [ok |-> FALSE, buff |-> <<>>]

(***************************************************************************)
(* base64.StdEncoding.EncodeToString                                       *)
(***************************************************************************)
encodeStd(i) ==
    IF i < 26 THEN 65 + i
    ELSE IF i < 52 THEN 97 + (i - 26)
    ELSE IF i < 62 THEN 48 + (i - 52)
    ELSE IF i = 62 THEN 43
    ELSE 47

RECURSIVE EncodeToString(_)
EncodeToString(src) ==
    IF Len(src) = 0 THEN <<>>
    ELSE IF Len(src) = 1 THEN
        <<encodeStd(src[1] \div 4), encodeStd((src[1] % 4) * 16), 61, 61>>
    ELSE IF Len(src) = 2 THEN
        <<encodeStd(src[1] \div 4),
          encodeStd((src[1] % 4) * 16 + src[2] \div 16),
          encodeStd((src[2] % 16) * 4), 61>>
    ELSE
        <<encodeStd(src[1] \div 4),
          encodeStd((src[1] % 4) * 16 + src[2] \div 16),
          encodeStd((src[2] % 16) * 4 + src[3] \div 64),
          encodeStd(src[3] % 64)>> \o EncodeToString(SubSeq(src, 4, Len(src)))

\* "Basic "
BasicPrefix == <<66, 97, 115, 105, 99, 32>>
\* ":"
Colon == <<58>>

(***************************************************************************)
(* tracingFactories: the compiled-in component factories.                  *)
(***************************************************************************)
\* component.Make*FactoryMap: a map keyed by factory type; a type given twice
\* is an error.
MakeFactoryMap(types) ==
    IF \E i, j \in 1..Len(types) : i < j /\ types[i] = types[j]
    THEN [err |-> "duplicate factory", types |-> {}]
    ELSE [err |-> "nil", types |-> {types[i] : i \in 1..Len(types)}]

NoFactories == [err |-> "nil", Extensions |-> {}, Receivers |-> {}, Exporters |-> {}, Processors |-> {}]

\* The factories, were an opencensus receiver compiled in as well.
tracingFactoriesOpencensus ==
    [err |-> "nil", Extensions |-> {},
     Receivers |-> {"jaeger", "zipkin", "otlp", "opencensus"},
     Exporters |-> {"otlp"}, Processors |-> {"queue", "batch"}]

\* tracingFactories(): no extensions; the jaeger, zipkin and otlp receivers; the
\* otlp exporter; the queue and batch processors.
tracingFactories ==
    LET extensions == MakeFactoryMap(<<>>)
        receivers == MakeFactoryMap(<<"jaeger", "zipkin", "otlp">>)
        exporters == MakeFactoryMap(<<"otlp">>)
        processors == MakeFactoryMap(<<"queue", "batch">>)
    IN  IF extensions.err # "nil" THEN [NoFactories EXCEPT !.err = extensions.err]
        ELSE IF receivers.err # "nil" THEN [NoFactories EXCEPT !.err = receivers.err]
        ELSE IF exporters.err # "nil" THEN [NoFactories EXCEPT !.err = exporters.err]
        ELSE IF processors.err # "nil" THEN [NoFactories EXCEPT !.err = processors.err]
        ELSE [err |-> "nil", Extensions |-> extensions.types, Receivers |-> receivers.types,
              Exporters |-> exporters.types, Processors |-> processors.types]

(***************************************************************************)
(* Config.otelConfig                                                       *)
(***************************************************************************)
\* The checks without the one of remote_write.url.
ValidateNoURL(c) ==
    IF ~c.Enabled THEN "tempo config not enabled"
    ELSE IF Cardinality(DOMAIN c.Receivers) = 0 THEN "must have at least one configured receiver"
    ELSE "nil"

\* The three checks that open otelConfig.
Validate(c) ==
    IF ~c.Enabled THEN "tempo config not enabled"
    ELSE IF Cardinality(DOMAIN c.Receivers) = 0 THEN "must have at least one configured receiver"
    ELSE IF c.RemoteWrite.URL = "" THEN "must have a configured remote_write.url"
    ELSE "nil"

\* The password, were the file read only without an inline password.
LoadPasswordInlineFirst(auth, files) ==
    IF Len(auth.Password) = 0 /\ auth.PasswordFile # ""
    THEN LET r == ReadFile(files, auth.PasswordFile)
         IN  IF ~r.ok THEN [err |-> "unable to load password file", password |-> <<>>, reads |-> 1]
             ELSE [err |-> "nil", password |-> r.buff, reads |-> 1]
    ELSE [err |-> "nil", password |-> auth.Password, reads |-> 0]

\* The password, were a final newline of the file dropped.
LoadPasswordTrimmed(auth, files) ==
    IF auth.PasswordFile # ""
    THEN LET r == ReadFile(files, auth.PasswordFile)
             n == Len(r.buff)
         IN  IF ~r.ok THEN [err |-> "unable to load password file", password |-> <<>>, reads |-> 1]
             ELSE [err |-> "nil", reads |-> 1,
                   password |-> IF n > 0 /\ r.buff[n] = 10 THEN SubSeq(r.buff, 1, n - 1) ELSE r.buff]
    ELSE [err |-> "nil", password |-> auth.Password, reads |-> 0]

\* The password of a basic_auth block: the inline one unless password_file is
\* set, and then the content of that file as it is.
LoadPassword(auth, files) ==
    IF auth.PasswordFile # ""
    THEN LET r == ReadFile(files, auth.PasswordFile)
         IN  IF ~r.ok THEN [err |-> "unable to load password file", password |-> <<>>, reads |-> 1]
             ELSE [err |-> "nil", password |-> r.buff, reads |-> 1]
    ELSE [err |-> "nil", password |-> auth.Password, reads |-> 0]

\* The headers of the exporter entry: a nil map without basic_auth.
NoHeaders == [h \in {} |-> <<>>]

Headers(auth, password) ==
    IF auth = Nil THEN NoHeaders
    ELSE [h \in {"Authorization"} |->
            BasicPrefix \o EncodeToString(Deref(auth).Username \o Colon \o password)]

\* The processors section.
Processors(rw) ==
    [p \in (IF rw.Batch # Nil THEN {"batch"} ELSE {}) \cup (IF rw.Queue # Nil THEN {"queue"} ELSE {}) |->
        IF p = "batch" THEN Deref(rw.Batch) ELSE Deref(rw.Queue)]

\* The processor list, were queue appended before batch.
ProcessorNamesQueueFirst(rw) ==
    (IF rw.Queue # Nil THEN <<"queue">> ELSE <<>>) \o (IF rw.Batch # Nil THEN <<"batch">> ELSE <<>>)

\* The pipeline's processor list: batch, then queue, each if configured.
ProcessorNames(rw) ==
    (IF rw.Batch # Nil THEN <<"batch">> ELSE <<>>) \o (IF rw.Queue # Nil THEN <<"queue">> ELSE <<>>)

\* The orders in which a range over a map may visit its keys: each key once.
RangeOrders(m) ==
    {o \in [1..Cardinality(DOMAIN m) -> DOMAIN m] : \A i, j \in DOMAIN o : o[i] = o[j] => i = j}

\* The receiver list, were the last key visited not appended.
ReceiverNamesDropLast(visited) ==
    IF Len(visited) <= 1 THEN visited
    ELSE SubSeq(visited, 1, Len(visited) - 1)

\* The pipeline's receiver list: the keys appended in the order the range visits them.
RECURSIVE ReceiverNames(_)
ReceiverNames(visited) ==
    IF Len(visited) = 0 THEN <<>>
    ELSE Append(ReceiverNames(SubSeq(visited, 1, Len(visited) - 1)), visited[Len(visited)])

otelMapStructure(c, headers, visited) ==
    [exporters |-> [otlp |-> [endpoint |-> c.RemoteWrite.URL, headers |-> headers]],
     processors |-> Processors(c.RemoteWrite),
     receivers |-> c.Receivers,
     pipelines |-> [traces |-> [exporters |-> <<"otlp">>,
                                processors |-> ProcessorNames(c.RemoteWrite),
                                receivers |-> ReceiverNames(visited)]]]

\* config.Load: every component of the graph is resolved against the factories
\* by its type, then its settings are read.
Load(v, factories) ==
    IF \E r \in DOMAIN v.receivers : r \notin factories.Receivers
    THEN [err |-> "unknown receiver type", cfg |-> Nil]
    ELSE IF \E e \in DOMAIN v.exporters : e \notin factories.Exporters
    THEN [err |-> "unknown exporter type", cfg |-> Nil]
    ELSE IF \E p \in DOMAIN v.processors : p \notin factories.Processors
    THEN [err |-> "unknown processor type", cfg |-> Nil]
    ELSE IF \E r \in DOMAIN v.receivers : v.receivers[r] = "malformed settings"
    THEN [err |-> "error reading receivers configuration", cfg |-> Nil]
    ELSE [err |-> "nil", cfg |-> Ptr(v)]

\* What otelConfig returns (cfg, err) and what it did on the way.
Returned(cfgPtr, msgs, map, reads, factories) ==
    [cfg |-> cfgPtr, err |-> msgs, map |-> map, reads |-> reads, factories |-> factories]

otelConfig(c, files, visited) ==
    IF Validate(c) # "nil" THEN Returned(Nil, <<Validate(c)>>, Nil, 0, 0)
    ELSE
      LET auth == c.RemoteWrite.BasicAuth
          pw == IF auth = Nil THEN [err |-> "nil", password |-> <<>>, reads |-> 0]
                ELSE LoadPassword(Deref(auth), files)
      IN  IF pw.err # "nil" THEN Returned(Nil, <<pw.err>>, Nil, pw.reads, 0)
          ELSE
            LET map == otelMapStructure(c, Headers(auth, pw.password), visited)
                factories == tracingFactories
            IN  IF factories.err # "nil"
                THEN Returned(Nil, <<"failed to create factories", factories.err>>, Ptr(map), pw.reads, 1)
                ELSE LET loaded == Load(map, factories)
                     IN  IF loaded.err # "nil"
                         THEN Returned(Nil, <<"failed to load OTel config", loaded.err>>, Ptr(map), pw.reads, 1)
                         ELSE Returned(loaded.cfg, <<>>, Ptr(map), pw.reads, 1)

(***************************************************************************)
(* The supervisor: New, buildAndStartPipeline, Stop.                       *)
(***************************************************************************)
Event(op, ok) == [op |-> op, ok |-> ok]

NoTempo == [exporter |-> "nil", pipelines |-> "nil", receivers |-> "nil"]

\* New returns (nil, err): the error buildAndStartPipeline returned, wrapped.
StartupFailed(msgs) ==
    /\ pc' = "StartupFailed"
    /\ err' = <<"failed to create exporter">> \o msgs

\* An outside call of buildAndStartPipeline: the builder's Build or the built
\* object's Start. It sets the field of the Tempo struct and either fails the
\* start with msg or lets it go on at next.
Stage(at, op, field, to, msg, next) ==
    /\ pc = at
    /\ \E ok \in BOOLEAN :
        /\ trace' = Append(trace, Event(op, ok))
        /\ IF ok
           THEN /\ tempo' = [tempo EXCEPT ![field] = to]
                /\ pc' = next
                /\ err' = err
           ELSE /\ tempo' = tempo
                /\ StartupFailed(<<msg>>)
    /\ UNCHANGED <<cfg, fs, otelCfg, mapStructure, fileReads, factoryCalls, logged, stops>>

\* New, up to its call of buildAndStartPipeline: the logger is created.
NewLogger ==
    /\ pc = "Uninitialized"
    /\ \E ok \in BOOLEAN :
        /\ trace' = Append(trace, Event("zap.NewProduction", ok))
        /\ IF ok
           THEN pc' = "otelConfig" /\ err' = err
           ELSE pc' = "StartupFailed" /\ err' = <<"failed to create zap prod logger">>
    /\ UNCHANGED <<cfg, fs, tempo, otelCfg, mapStructure, fileReads, factoryCalls, logged, stops>>

\* buildAndStartPipeline: cfg.otelConfig()
Translate ==
    /\ pc = "otelConfig"
    /\ \E visited \in RangeOrders(cfg.Receivers) :
        LET r == otelConfig(cfg, fs, visited)
        IN  /\ trace' = Append(trace, Event("otelConfig", r.err = <<>>))
            /\ otelCfg' = r.cfg
            /\ mapStructure' = r.map
            /\ fileReads' = fileReads + r.reads
            /\ factoryCalls' = factoryCalls + r.factories
            /\ IF r.err = <<>>
               THEN pc' = "tracingFactories" /\ err' = err
               ELSE StartupFailed(<<"failed to load otelConfig from agent tempo config">> \o r.err)
    /\ UNCHANGED <<cfg, fs, tempo, logged, stops>>

\* buildAndStartPipeline: tracingFactories()
LoadFactories ==
    /\ pc = "tracingFactories"
    /\ LET factories == tracingFactories
       IN  /\ trace' = Append(trace, Event("tracingFactories", factories.err = "nil"))
           /\ factoryCalls' = factoryCalls + 1
           /\ IF factories.err = "nil"
              THEN pc' = "buildExporters" /\ err' = err
              ELSE StartupFailed(<<"failed to load tracing factories", factories.err>>)
    /\ UNCHANGED <<cfg, fs, tempo, otelCfg, mapStructure, fileReads, logged, stops>>

BuildExporters ==
    Stage("buildExporters", "Exporters.Build", "exporter", "built",
          "failed to build exporters", "startExporters")

StartExporters ==
    Stage("startExporters", "Exporters.StartAll", "exporter", "started",
          "failed to start exporters", "buildPipelines")

\* The pipelines build, were it reached without the exporters' start.
BuildPipelinesBeforeExportersStart ==
    Stage("startExporters", "Pipelines.Build", "pipelines", "built",
          "failed to build exporters", "startProcessors")

BuildPipelines ==
    Stage("buildPipelines", "Pipelines.Build", "pipelines", "built",
          "failed to build exporters", "startProcessors")

\* The processors' start, were its error not checked.
StartProcessorsUnchecked ==
    /\ pc = "startProcessors"
    /\ \E ok \in BOOLEAN : trace' = Append(trace, Event("Pipelines.StartProcessors", ok))
    /\ tempo' = [tempo EXCEPT !.pipelines = "started"]
    /\ pc' = "buildReceivers"
    /\ UNCHANGED <<cfg, fs, err, otelCfg, mapStructure, fileReads, factoryCalls, logged, stops>>

StartProcessors ==
    Stage("startProcessors", "Pipelines.StartProcessors", "pipelines", "started",
          "failed to start processors", "buildReceivers")

BuildReceivers ==
    Stage("buildReceivers", "Receivers.Build", "receivers", "built",
          "failed to start receivers", "startReceivers")

\* The last stage; buildAndStartPipeline returns nil and New returns the Tempo.
StartReceivers ==
    Stage("startReceivers", "Receivers.StartAll", "receivers", "started",
          "failed to start receivers", "Running")

\* A shutdown call of Stop: its error is logged and Stop goes on.
Shutdown(at, op, next, done) ==
    /\ pc = at
    /\ \E ok \in BOOLEAN :
        /\ trace' = Append(trace, Event(op, ok))
        /\ logged' = IF ok THEN logged ELSE logged + 1
    /\ pc' = next
    /\ stops' = stops + done
    /\ UNCHANGED <<cfg, fs, err, tempo, otelCfg, mapStructure, fileReads, factoryCalls>>

\* Stop is called on the Tempo that New returned; first call t.receivers.ShutdownAll.
StopReceivers ==
    /\ stops < MaxStops
    /\ Shutdown(IF pc = "Stopped" THEN "Stopped" ELSE "Running",
                "Receivers.ShutdownAll", "shutdownProcessors", 0)

\* The processors' shutdown, were Stop to return on its error.
StopProcessorsReturnOnError ==
    /\ pc = "shutdownProcessors"
    /\ \E ok \in BOOLEAN :
        /\ trace' = Append(trace, Event("Pipelines.ShutdownProcessors", ok))
        /\ logged' = IF ok THEN logged ELSE logged + 1
        /\ pc' = IF ok THEN "shutdownReceivers" ELSE "Stopped"
        /\ stops' = IF ok THEN stops ELSE stops + 1
    /\ UNCHANGED <<cfg, fs, err, tempo, otelCfg, mapStructure, fileReads, factoryCalls>>

StopProcessors ==
    Shutdown("shutdownProcessors", "Pipelines.ShutdownProcessors", "shutdownReceivers", 0)

\* The third call of Stop, t.receivers.ShutdownAll again; Stop returns.
StopReceiversAgain ==
    Shutdown("shutdownReceivers", "Receivers.ShutdownAll", "Stopped", 1)

(***************************************************************************)
(* Specifications.                                                         *)
(***************************************************************************)
\* New has not been called.
Uninitialized ==
    /\ pc = "Uninitialized"
    /\ trace = <<>>
    /\ err = <<>>
    /\ tempo = NoTempo
    /\ otelCfg = Nil
    /\ mapStructure = Nil
    /\ fileReads = 0
    /\ factoryCalls = 0
    /\ logged = 0
    /\ stops = 0

\* The life of a supervisor, over the configurations with at most one receiver
\* and, with basic_auth, the inline password "p", beside a password file "s\n".
LifecycleConfigs ==
    [Enabled : BOOLEAN,
     RemoteWrite : [URL : URLs,
                    BasicAuth : {Nil} \cup {Ptr(b) : b \in [Username : Usernames,
                                                             Password : {<<112>>},
                                                             PasswordFile : PasswordFiles]},
                    Batch : {Nil, Ptr("batch settings")},
                    Queue : {Nil, Ptr("queue settings")}],
     Receivers : UNION {[ks -> ReceiverSettings] : ks \in {s \in SUBSET ReceiverKeys : Cardinality(s) <= 1}}]

Init ==
    /\ cfg \in LifecycleConfigs
    /\ fs = [p \in {SecretPath} |-> <<115, 10>>]
    /\ Uninitialized

Next ==
    \/ NewLogger
    \/ Translate
    \/ LoadFactories
    \/ BuildExporters
    \/ StartExporters
    \/ BuildPipelines
    \/ StartProcessors
    \/ BuildReceivers
    \/ StartReceivers
    \/ StopReceivers
    \/ StopProcessors
    \/ StopReceiversAgain

Spec == Init /\ [][Next]_vars

\* The translation alone, over every configuration and file system.
\* The password file's content matters only to a configuration that reads it.
ReadsSecret(c) ==
    c.RemoteWrite.BasicAuth # Nil /\ Deref(c.RemoteWrite.BasicAuth).PasswordFile = SecretPath

InitTranslate ==
    /\ cfg \in Config
    /\ fs \in {f \in FileSystems : ReadsSecret(cfg) \/ f[SecretPath] = <<>>}
    /\ Uninitialized

NextTranslate == NewLogger \/ Translate

SpecTranslate == InitTranslate /\ [][NextTranslate]_vars

(***************************************************************************)
(* Properties of the supervisor (checked under Spec).                      *)
(***************************************************************************)
StartOrder ==
    <<"otelConfig", "Exporters.Build", "Exporters.StartAll", "Pipelines.Build",
      "Pipelines.StartProcessors", "Receivers.Build", "Receivers.StartAll">>

StopOrder == <<"Receivers.ShutdownAll", "Pipelines.ShutdownProcessors", "Receivers.ShutdownAll">>

ShutdownOps == {"Exporters.ShutdownAll", "Pipelines.ShutdownProcessors", "Receivers.ShutdownAll"}

IsStartStage(e) == \E i \in DOMAIN StartOrder : StartOrder[i] = e.op

IsShutdown(e) == e.op \in ShutdownOps

StartStages == SelectSeq(trace, IsStartStage)

ShutdownCalls == SelectSeq(trace, IsShutdown)

CallsOf(op) == Cardinality({i \in DOMAIN trace : trace[i].op = op})

\* C1: the stages of a start happen in the order translate, build exporters,
\* start exporters, build processors, start processors, build receivers, start
\* receivers, and a stage begins only after every stage before it has returned
\* without an error.
C1_StartOrder ==
    /\ Len(StartStages) <= Len(StartOrder)
    /\ \A i \in DOMAIN StartStages :
        /\ StartStages[i].op = StartOrder[i]
        /\ i < Len(StartStages) => StartStages[i].ok

C1_Witness ==
    /\ pc = "Running"
    /\ Len(StartStages) = Len(StartOrder)

\* C2: every call of Stop makes exactly three shutdown calls, receivers, then
\* processors, then receivers again, whatever each of them returns, and returns
\* without an error reaching the caller.
C2_StopSequence ==
    LET inStop == IF pc = "shutdownProcessors" THEN 1 ELSE IF pc = "shutdownReceivers" THEN 2 ELSE 0
    IN  /\ Len(ShutdownCalls) = 3 * stops + inStop
        /\ \A i \in DOMAIN ShutdownCalls : ShutdownCalls[i].op = StopOrder[((i - 1) % 3) + 1]
        /\ logged = Cardinality({i \in DOMAIN ShutdownCalls : ~ShutdownCalls[i].ok})
        /\ Len(ShutdownCalls) > 0 => err = <<>>

C2_Witness ==
    /\ pc = "Stopped"
    /\ stops = 1
    /\ \A i \in DOMAIN ShutdownCalls : ~ShutdownCalls[i].ok

\* C3: a stage of the start that fails ends the start there: no later stage is
\* attempted, New returns an error, the supervisor never runs, and what the
\* earlier stages started gets no shutdown call.
C3_FailedStartAborts ==
    /\ \A i \in DOMAIN trace :
        (~trace[i].ok /\ ~IsShutdown(trace[i])) =>
            /\ i = Len(trace)
            /\ pc = "StartupFailed"
    /\ pc = "StartupFailed" =>
        /\ err # <<>>
        /\ Len(trace) > 0 /\ ~trace[Len(trace)].ok
        /\ Len(ShutdownCalls) = 0
        /\ stops = 0
    /\ pc \in {"Running", "shutdownProcessors", "shutdownReceivers", "Stopped"} =>
        /\ err = <<>>
        /\ Len(StartStages) = Len(StartOrder)

C3_Witness ==
    /\ pc = "StartupFailed"
    /\ tempo.exporter = "started"
    /\ tempo.pipelines = "started"
    /\ trace[Len(trace)].op = "Receivers.Build"

\* C4: after a start that succeeded and one Stop, each of the exporter set, the
\* processor chain and the receiver set has received exactly one shutdown call.
C4_EachShutDownOnce ==
    (pc = "Stopped" /\ stops = 1) => \A op \in ShutdownOps : CallsOf(op) = 1

(***************************************************************************)
(* Properties of the translation (checked under SpecTranslate).            *)
(***************************************************************************)
\* otelConfig has returned.
Translated == Len(trace) >= 2 /\ trace[2].op = "otelConfig"

\* The configuration passes the three checks of the data model.
ValidConfig ==
    /\ cfg.Enabled
    /\ DOMAIN cfg.Receivers # {}
    /\ cfg.RemoteWrite.URL # ""

ConfigInvalid ==
    {"tempo config not enabled",
     "must have at least one configured receiver",
     "must have a configured remote_write.url"}

UnknownComponentType ==
    {"unknown receiver type", "unknown exporter type", "unknown processor type"}

\* The error otelConfig returned, inside the two wrappers of New.
TranslationError == SubSeq(err, 3, Len(err))

HasBasicAuth == cfg.RemoteWrite.BasicAuth # Nil

BasicAuth == Deref(cfg.RemoteWrite.BasicAuth)

UnreadablePasswordFile ==
    /\ HasBasicAuth
    /\ BasicAuth.PasswordFile # ""
    /\ BasicAuth.PasswordFile \notin DOMAIN fs

Graph == Deref(mapStructure)

Traces == Graph.pipelines.traces

Elements(seq) == {seq[i] : i \in DOMAIN seq}

\* C5: a configuration that is disabled, or has no receivers, or has an empty
\* remote_write.url is refused with a configuration-invalid error before the
\* factories are created or consulted, and nothing of the graph is produced.
C5_InvalidConfigRefused ==
    (Translated /\ ~ValidConfig) =>
        /\ pc = "StartupFailed"
        /\ Len(TranslationError) = 1
        /\ TranslationError[1] \in ConfigInvalid
        /\ factoryCalls = 0
        /\ fileReads = 0
        /\ otelCfg = Nil
        /\ mapStructure = Nil

C5_Witness ==
    /\ Translated
    /\ cfg.Enabled
    /\ DOMAIN cfg.Receivers # {}
    /\ cfg.RemoteWrite.URL = ""
    /\ TranslationError = <<"must have a configured remote_write.url">>

\* C6: the processor list of a valid configuration is [batch, queue] with both
\* settings present, [batch] with batch alone, [queue] with queue alone and
\* empty with neither, and the processors section has exactly the entries the
\* list names.
C6_ProcessorList ==
    /\ (Translated /\ ValidConfig /\ ~UnreadablePasswordFile) => mapStructure # Nil
    /\ mapStructure # Nil =>
        /\ Traces.processors =
              IF cfg.RemoteWrite.Batch # Nil /\ cfg.RemoteWrite.Queue # Nil THEN <<"batch", "queue">>
              ELSE IF cfg.RemoteWrite.Batch # Nil THEN <<"batch">>
              ELSE IF cfg.RemoteWrite.Queue # Nil THEN <<"queue">>
              ELSE <<>>
        /\ DOMAIN Graph.processors = Elements(Traces.processors)

C6_Witness ==
    /\ otelCfg # Nil
    /\ Traces.processors = <<"batch", "queue">>
    /\ DOMAIN Graph.processors = {"batch", "queue"}

\* C7, as claimed: with basic_auth and a password_file that cannot be read, the
\* translation fails with the credential-load error and produces nothing of the
\* graph, an inline password or not.
C7_UnreadableFileAlwaysCredentialError ==
    (Translated /\ UnreadablePasswordFile) =>
        /\ TranslationError = <<"unable to load password file">>
        /\ otelCfg = Nil
        /\ mapStructure = Nil

\* C7, amended: the same of every configuration that is enabled and has a
\* receiver and a remote_write.url; any other configuration is refused by the
\* checks that come before the file is read.
C7_UnreadableFileOfValidConfig ==
    (Translated /\ ValidConfig /\ UnreadablePasswordFile) =>
        /\ pc = "StartupFailed"
        /\ TranslationError = <<"unable to load password file">>
        /\ fileReads = 1
        /\ otelCfg = Nil
        /\ mapStructure = Nil

C7_Witness ==
    /\ Translated
    /\ ValidConfig
    /\ UnreadablePasswordFile
    /\ BasicAuth.Password = <<112>>
    /\ TranslationError = <<"unable to load password file">>

\* The decoding of base64.StdEncoding, for reading a header back.
decodeMapStd(ch) ==
    IF ch >= 65 /\ ch <= 90 THEN ch - 65
    ELSE IF ch >= 97 /\ ch <= 122 THEN ch - 71
    ELSE IF ch >= 48 /\ ch <= 57 THEN ch + 4
    ELSE IF ch = 43 THEN 62
    ELSE 63

RECURSIVE DecodeString(_)
DecodeString(s) ==
    IF Len(s) < 4 THEN <<>>
    ELSE LET n == decodeMapStd(s[1]) * 262144 + decodeMapStd(s[2]) * 4096
                  + (IF s[3] = 61 THEN 0 ELSE decodeMapStd(s[3]) * 64)
                  + (IF s[4] = 61 THEN 0 ELSE decodeMapStd(s[4]))
             bytes == <<n \div 65536, (n \div 256) % 256, n % 256>>
         IN  IF s[3] = 61 THEN SubSeq(bytes, 1, 1)
             ELSE IF s[4] = 61 THEN SubSeq(bytes, 1, 2)
             ELSE bytes \o DecodeString(SubSeq(s, 5, Len(s)))

ExporterHeaders == Graph.exporters.otlp.headers

\* C8: a translation that succeeds gives the exporter an Authorization header
\* exactly when basic_auth is configured; the header is "Basic " and the base64
\* of username ":" password, the password being the whole content of
\* password_file when password_file is set, and the inline password otherwise.
C8_AuthorizationHeader ==
    otelCfg # Nil =>
        /\ DOMAIN ExporterHeaders = IF HasBasicAuth THEN {"Authorization"} ELSE {}
        /\ HasBasicAuth =>
            LET header == ExporterHeaders["Authorization"]
                password == IF BasicAuth.PasswordFile # "" THEN fs[BasicAuth.PasswordFile]
                            ELSE BasicAuth.Password
            IN  /\ Len(header) > 6
                /\ Len(header) % 4 = 2
                /\ SubSeq(header, 1, 6) = <<66, 97, 115, 105, 99, 32>>
                /\ DecodeString(SubSeq(header, 7, Len(header))) = BasicAuth.Username \o <<58>> \o password

\* The header of user "u" with the password file "s\n" beside the inline
\* password "p": "Basic dTpzCg==".
C8_Witness ==
    /\ otelCfg # Nil
    /\ HasBasicAuth
    /\ BasicAuth.Password = <<112>>
    /\ BasicAuth.PasswordFile = SecretPath
    /\ fs[SecretPath] = <<115, 10>>
    /\ ExporterHeaders["Authorization"] =
          <<66, 97, 115, 105, 99, 32, 100, 84, 112, 122, 67, 103, 61, 61>>

\* C9: the receivers of pipelines.traces are the keys of the receivers mapping
\* of a valid configuration, each once and nothing else, in whatever order the
\* mapping is visited.
C9_ReceiverNames ==
    /\ (Translated /\ ValidConfig /\ ~UnreadablePasswordFile) => mapStructure # Nil
    /\ mapStructure # Nil =>
        /\ Elements(Traces.receivers) = DOMAIN cfg.Receivers
        /\ Len(Traces.receivers) = Cardinality(DOMAIN cfg.Receivers)
        /\ Graph.receivers = cfg.Receivers

C9_Witness ==
    /\ otelCfg # Nil
    /\ DOMAIN cfg.Receivers = {"jaeger", "zipkin"}
    /\ Traces.receivers = <<"zipkin", "jaeger">>

====
